---------------------------- MODULE Spec2Model ----------------------------
(***************************************************************************)
(* A model of pixi's `project export conda-explicit-spec` command          *)
(* (src/cli/project/export/conda_explicit_spec.rs) and of the PyPI name    *)
(* type of src/project/manifest/pypi/pypi_requirement_types.rs.            *)
(*                                                                         *)
(* Spec        : `execute` run on a lock file and command-line arguments.  *)
(* SpecRender  : `render_env_platform` called directly on one             *)
(*               (environment, platform) pair, as the unit test does.      *)
(* SpecName    : `PyPiPackageName::from_str` applied to two strings.       *)
(* SpecRev     : `GitRev` made from a revision string, both ways.          *)
(***************************************************************************)
EXTENDS Naturals, Sequences, FiniteSets, TLC

VARIABLES
    lock,           \* LockFile: environment name -> platform -> package list
    args,           \* Args: environment, platform, ignore_pypi_errors
    pc,             \* position in execute / in the test harness
    cursor,         \* index of the loop that pc names
    environments,   \* execute's `environments` vector (names)
    env_platform,   \* execute's `env_platform` vector of <<env, platform>>
    fs,             \* file system: [dir: output_dir exists, files: path -> contents]
    warnings,       \* what tracing::warn! has emitted, in order
    rendered,       \* the <<env, platform>> pairs render_env_platform was called on
    result,         \* what the run returned: None until it returns
    last,           \* the latest render_env_platform call: arguments, outcome
    names,          \* the PyPiPackageName values under comparison
    rev             \* a revision string and the GitRev values made from it

vars == <<lock, args, pc, cursor, environments, env_platform, fs, warnings,
          rendered, result, last, names, rev>>

----------------------------------------------------------------------------
(* Bounds                                                                  *)

\* Longest package list of one (environment, platform) pair in SpecRender.
MaxPkgs == 3
\* Longest --environment / --platform list on the command line.
MaxArgs == 2
\* render_env_platform calls made by the test harness of SpecRender.
MaxCalls == 2
\* Longest source string handed to PyPiPackageName::from_str.
MaxNameLen == 3

----------------------------------------------------------------------------
(* Option<T>: None is the empty sequence, Some(x) the one-element one.     *)

None == <<>>
Some(x) == <<x>>
IsSome(o) == o # <<>>
Unwrap(o) == o[1]

\* All sequences over S of length lo..hi.
SeqsOf(S, lo, hi) == UNION {[1..n -> S] : n \in lo..hi}

----------------------------------------------------------------------------
(* Packages of a lock file                                                 *)

\* Conda package names in the order of their normalized names.
NameOrder == <<"bar", "foo", "qux">>
CondaNames == {NameOrder[i] : i \in DOMAIN NameOrder}
Rank(n) == CHOOSE i \in DOMAIN NameOrder : NameOrder[i] = n

PypiNames == {"flask", "rich"}

\* md5 digests (16 bytes in the program; two bytes keep the hex encoding visible).
Md5Values == {<<10, 255>>}

HexDigits == <<"0", "1", "2", "3", "4", "5", "6", "7",
               "8", "9", "a", "b", "c", "d", "e", "f">>

\* format!("{:x}", hash): two lowercase hexadecimal digits per byte.
RECURSIVE LowerHex(_)
LowerHex(bytes) ==
    IF bytes = <<>> THEN ""
    ELSE HexDigits[(bytes[1] \div 16) + 1] \o HexDigits[(bytes[1] % 16) + 1]
         \o LowerHex(Tail(bytes))

\* rattler_lock::Package::Conda: the record, its url and its dependency names.
CondaPackage(n, deps, md5) ==
    [kind |-> "conda", name |-> n, depends |-> deps, md5 |-> md5,
     url |-> [path |-> "https://conda.anaconda.org/" \o n, fragment |-> None]]

\* rattler_lock::Package::Pypi
PypiPackage(n) == [kind |-> "pypi", name |-> n]

CondaPackages ==
    {CondaPackage(n, d, m) : n \in CondaNames,
                             d \in SUBSET CondaNames,
                             m \in {None} \cup {Some(h) : h \in Md5Values}}

PypiPackages == {PypiPackage(n) : n \in PypiNames}

\* A solved package list names every package once, and no package depends
\* on itself.
Extends(ps) ==
    {q \in CondaPackages \cup PypiPackages :
        /\ \A i \in DOMAIN ps : ps[i].name # q.name
        /\ q.kind = "conda" => q.name \notin q.depends}

RECURSIVE PackageListsOfLen(_)
PackageListsOfLen(n) ==
    IF n = 0 THEN {<<>>}
    ELSE UNION {{Append(ps, p) : p \in Extends(ps)} :
                    ps \in PackageListsOfLen(n - 1)}

PackageLists == UNION {PackageListsOfLen(n) : n \in 0..MaxPkgs}

----------------------------------------------------------------------------
(* PackageRecord::sort_topologically (rattler_conda_types), called at      *)
(* conda_explicit_spec.rs:132.  It returns a Vec, never an error: every    *)
(* record it is given comes back once, dependencies first; an edge that    *)
(* closes a cycle is dropped.  Roots and dependencies are visited in name  *)
(* order, which makes the result independent of the input order.           *)

RECURSIVE SortNames(_)
SortNames(S) ==
    IF S = {} THEN <<>>
    ELSE LET m == CHOOSE x \in S : \A y \in S : Rank(x) <= Rank(y)
         IN <<m>> \o SortNames(S \ {m})

RecordNames(records) == {records[i].name : i \in DOMAIN records}
RecordOf(records, n) == records[CHOOSE i \in DOMAIN records : records[i].name = n]

\* Packages that are no dependency of any other package.
get_graph_roots(records) ==
    RecordNames(records) \ UNION {records[i].depends : i \in DOMAIN records}

ResolveAndBuild(n) == [act |-> "ResolveAndBuild", name |-> n]
Build(n) == [act |-> "Build", name |-> n]
Actions(ns) == [i \in DOMAIN ns |-> ResolveAndBuild(ns[i])]

\* The stack loop: pop an action; a package is resolved once; its
\* dependencies are built before it.  A name without a record (a virtual
\* package, a package outside the list) is skipped.
RECURSIVE TopologicalLoop(_, _, _, _)
TopologicalLoop(records, stack, visited, order) ==
    IF stack = <<>> THEN [visited |-> visited, order |-> order]
    ELSE LET action == stack[Len(stack)]
             rest == SubSeq(stack, 1, Len(stack) - 1)
             n == action.name
         IN IF action.act = "Build"
            THEN TopologicalLoop(records, rest, visited, Append(order, n))
            ELSE IF n \in visited
            THEN TopologicalLoop(records, rest, visited, order)
            ELSE IF n \notin RecordNames(records)
            THEN TopologicalLoop(records, rest, visited \cup {n}, order)
            ELSE TopologicalLoop(records,
                     rest \o <<Build(n)>>
                          \o Actions(SortNames(RecordOf(records, n).depends)),
                     visited \cup {n}, order)

\* Start from the roots; packages only a cycle reaches are started from next.
RECURSIVE get_topological_order(_, _, _, _)
get_topological_order(records, starts, visited, order) ==
    LET run == TopologicalLoop(records, Actions(SortNames(starts)), visited, order)
        left == RecordNames(records) \ run.visited
    IN IF left = {} THEN run.order
       ELSE get_topological_order(records,
                {CHOOSE x \in left : \A y \in left : Rank(x) <= Rank(y)},
                run.visited, run.order)

sort_topologically(records) ==
    LET order == get_topological_order(records, get_graph_roots(records), {}, <<>>)
    IN [i \in DOMAIN order |-> RecordOf(records, order[i])]

----------------------------------------------------------------------------
(* build_explicit_spec, render_explicit_spec, render_env_platform          *)

Ok(v) == [ok |-> TRUE, value |-> v]
Err(e) == [ok |-> FALSE, error |-> e]

\* Mutant of BuildEntries: a record without md5 yields an entry without a
\* fragment instead of an error.
RECURSIVE BuildEntries_NoFragment(_, _)
BuildEntries_NoFragment(records, packages) ==
    IF records = <<>> THEN Ok(packages)
    ELSE LET cp == Head(records)
         IN BuildEntries_NoFragment(Tail(records),
                Append(packages,
                       [url |-> IF IsSome(cp.md5)
                                THEN [cp.url EXCEPT
                                        !.fragment = Some(LowerHex(Unwrap(cp.md5)))]
                                ELSE cp.url]))

\* The loop of build_explicit_spec over the records it is given, in order.
RECURSIVE BuildEntries(_, _)
BuildEntries(records, packages) ==
    IF records = <<>> THEN Ok(packages)
    ELSE LET cp == Head(records)
         IN IF ~IsSome(cp.md5)
            THEN Err([kind |-> "no_md5", name |-> cp.name])
            ELSE BuildEntries(Tail(records),
                     Append(packages,
                            [url |-> [cp.url EXCEPT
                                !.fragment = Some(LowerHex(Unwrap(cp.md5)))]]))

build_explicit_spec(platform, conda_packages) ==
    LET built == BuildEntries(conda_packages, <<>>)
    IN IF built.ok
       THEN Ok([platform |-> Some(platform), packages |-> built.value])
       ELSE built

SpecFileName(env_name, platform) ==
    env_name \o "_" \o platform \o "_conda_spec.txt"

\* The generator comment of line 80 (its backquotes left out).
Header == "# Generated by pixi project export"

\* fs::write(target, contents): the file is created or replaced.
Write(files, target, contents) ==
    [p \in DOMAIN files \cup {target} |->
        IF p = target THEN contents ELSE files[p]]

\* Mutant of render_explicit_spec: the test for an empty entry list is
\* missing.
render_explicit_spec_NoEmptyCheck(files, target, exp_env_spec) ==
    [files |-> Write(files, target, [header |-> Header, spec |-> exp_env_spec]),
     wrote |-> TRUE]

\* render_explicit_spec(target, exp_env_spec): the files it leaves and
\* whether it wrote.
render_explicit_spec(files, target, exp_env_spec) ==
    IF exp_env_spec.packages = <<>> THEN [files |-> files, wrote |-> FALSE]
    ELSE [files |-> Write(files, target,
                          [header |-> Header, spec |-> exp_env_spec]),
          wrote |-> TRUE]

\* Mutant of FilterPackages: PyPI packages are dropped whatever the flag.
RECURSIVE FilterPackages_AlwaysIgnore(_, _, _, _)
FilterPackages_AlwaysIgnore(packages, ignore_pypi_errors, conda, warned) ==
    IF packages = <<>> THEN [ok |-> TRUE, conda |-> conda, warned |-> warned]
    ELSE LET package == Head(packages)
         IN IF package.kind = "conda"
            THEN FilterPackages_AlwaysIgnore(Tail(packages), ignore_pypi_errors,
                                             Append(conda, package), warned)
            ELSE FilterPackages_AlwaysIgnore(Tail(packages), ignore_pypi_errors,
                     conda,
                     Append(warned, [kind |-> "ignoring_pypi", name |-> package.name]))

\* Mutant of FilterPackages: a PyPI package is dropped without a warning.
RECURSIVE FilterPackages_NoWarning(_, _, _, _)
FilterPackages_NoWarning(packages, ignore_pypi_errors, conda, warned) ==
    IF packages = <<>> THEN [ok |-> TRUE, conda |-> conda, warned |-> warned]
    ELSE LET package == Head(packages)
         IN IF package.kind = "conda"
            THEN FilterPackages_NoWarning(Tail(packages), ignore_pypi_errors,
                                          Append(conda, package), warned)
            ELSE IF ignore_pypi_errors
            THEN FilterPackages_NoWarning(Tail(packages), ignore_pypi_errors,
                                          conda, warned)
            ELSE [ok |-> FALSE, conda |-> conda, warned |-> warned]

\* The match loop of render_env_platform (lines 104-122).
RECURSIVE FilterPackages(_, _, _, _)
FilterPackages(packages, ignore_pypi_errors, conda, warned) ==
    IF packages = <<>> THEN [ok |-> TRUE, conda |-> conda, warned |-> warned]
    ELSE LET package == Head(packages)
         IN IF package.kind = "conda"
            THEN FilterPackages(Tail(packages), ignore_pypi_errors,
                                Append(conda, package), warned)
            ELSE IF ignore_pypi_errors
            THEN FilterPackages(Tail(packages), ignore_pypi_errors, conda,
                     Append(warned, [kind |-> "ignoring_pypi", name |-> package.name]))
            ELSE [ok |-> FALSE, conda |-> conda, warned |-> warned]

\* render_env_platform on lock file lf: the result, the warnings it emits
\* and the files it leaves.
render_env_platform(lf, files, env_name, platform, ignore_pypi_errors) ==
    IF platform \notin DOMAIN lf[env_name]
    THEN [result |-> Err([kind |-> "platform_not_found"]), warned |-> <<>>,
          files |-> files, wrote |-> FALSE]
    ELSE LET filtered == FilterPackages(lf[env_name][platform],
                                        ignore_pypi_errors, <<>>, <<>>)
         IN IF ~filtered.ok
            THEN [result |-> Err([kind |-> "pypi_not_supported"]),
                  warned |-> filtered.warned, files |-> files,
                  wrote |-> FALSE]
            ELSE LET repodata == sort_topologically(filtered.conda)
                     ees == build_explicit_spec(platform, repodata)
                 IN IF ~ees.ok
                    THEN [result |-> ees, warned |-> filtered.warned,
                          files |-> files, wrote |-> FALSE]
                    ELSE LET w == render_explicit_spec(files,
                                      SpecFileName(env_name, platform),
                                      ees.value)
                         IN [result |-> Ok("unit"),
                             warned |-> filtered.warned,
                             files |-> w.files, wrote |-> w.wrote]

----------------------------------------------------------------------------
(* State shared by the specifications                                      *)

NoFiles == [p \in {} |-> None]

\* What a call of render_env_platform(output_dir, env_name, env, platform,
\* ignore_pypi_errors) leaves behind, r being its outcome on files `before`.
CallRecord(env_name, platform, ignore_pypi_errors, before, r) ==
    Some([env_name |-> env_name, platform |-> platform,
          ignore_pypi_errors |-> ignore_pypi_errors, before |-> before,
          warned |-> r.warned, result |-> r.result, files |-> r.files,
          wrote |-> r.wrote])

----------------------------------------------------------------------------
(* SpecRender: the harness of the unit test, render_env_platform called on *)
(* one pair of a lock file into an existing (temporary) output directory.  *)

InitRender ==
    /\ \E ps \in PackageLists :
          lock = [e \in {"default"} |-> [p \in {"linux-64"} |-> ps]]
    /\ args = [environment |-> None, platform |-> None,
               ignore_pypi_errors |-> FALSE]
    /\ pc = "test"
    /\ cursor = 0
    /\ environments = <<>>
    /\ env_platform = <<>>
    /\ fs = [dir |-> TRUE, files |-> NoFiles]
    /\ warnings = <<>>
    /\ rendered = <<>>
    /\ result = None
    /\ last = None
    /\ names = <<>>
    /\ rev = None

\* One call of the test: the files of an earlier call stay in the directory.
TestRender ==
    /\ pc = "test"
    /\ cursor < MaxCalls
    /\ \E ignore \in BOOLEAN :
        LET r == render_env_platform(lock, fs.files, "default", "linux-64", ignore)
        IN /\ last' = CallRecord("default", "linux-64", ignore, fs.files, r)
           /\ result' = Some(r.result)
           /\ warnings' = warnings \o r.warned
           /\ fs' = [fs EXCEPT !.files = r.files]
    /\ cursor' = cursor + 1
    /\ rendered' = Append(rendered, <<"default", "linux-64">>)
    /\ UNCHANGED <<lock, args, pc, environments, env_platform, names, rev>>

NextRender == TestRender

SpecRender == InitRender /\ [][NextRender]_vars

----------------------------------------------------------------------------
(* Spec: execute (lines 146-209) on a lock file and command-line arguments *)

EnvNames == {"default", "cuda"}
\* Names a caller may pass to --environment; "ci" is in no lock file.
RequestedEnvNames == EnvNames \cup {"ci"}
Platforms == {"linux-64", "osx-arm64"}

Md5 == Some(<<10, 255>>)

\* Package lists of the pairs of execute's lock files: between them
\* render_env_platform writes a file, fails on a missing md5, fails on a
\* PyPI package, or drops the PyPI package and has nothing to write.
ExecPackageLists ==
    { <<CondaPackage("foo", {"bar"}, Md5), CondaPackage("bar", {}, Md5)>>,
      <<CondaPackage("bar", {}, None)>>,
      <<PypiPackage("rich")>> }

\* An environment: the platforms it was solved for, a package list for each.
Environments == UNION {[P -> ExecPackageLists] : P \in SUBSET Platforms}

\* A lock file always holds the default environment.
LockFiles ==
    UNION {[E -> Environments] : E \in {F \in SUBSET EnvNames : "default" \in F}}

ArgsSet ==
    [environment : {None} \cup {Some(v) : v \in SeqsOf(RequestedEnvNames, 1, MaxArgs)},
     platform : {None} \cup {Some(v) : v \in SeqsOf(Platforms, 1, MaxArgs)},
     ignore_pypi_errors : BOOLEAN]

\* Every order in which a set can be iterated.
Orders(S) ==
    {v \in [1..Cardinality(S) -> S] : \A i, j \in DOMAIN v : v[i] = v[j] => i = j}

Init ==
    /\ lock \in LockFiles
    /\ args \in ArgsSet
    /\ pc = "environments"
    /\ cursor = 1
    /\ environments = <<>>
    /\ env_platform = <<>>
    /\ fs = [dir |-> FALSE, files |-> NoFiles]
    /\ warnings = <<>>
    /\ rendered = <<>>
    /\ result = None
    /\ last = None
    /\ names = <<>>
    /\ rev = None

\* Mutant of SelectEnvironment: a name the lock file does not hold is
\* skipped instead of ending the run.
SelectEnvironment_SkipUnknown ==
    /\ pc = "environments"
    /\ IsSome(args.environment)
    /\ LET env_names == Unwrap(args.environment)
           env_name == env_names[cursor]
       IN /\ environments' = IF env_name \in DOMAIN lock
                             THEN Append(environments, env_name)
                             ELSE environments
          /\ IF cursor = Len(env_names)
             THEN pc' = "platforms" /\ cursor' = 1
             ELSE pc' = pc /\ cursor' = cursor + 1
    /\ UNCHANGED <<lock, args, env_platform, fs, warnings, rendered, result,
                   last, names, rev>>

\* Lines 157-165: one turn of the loop over the requested environment names.
SelectEnvironment ==
    /\ pc = "environments"
    /\ IsSome(args.environment)
    /\ LET env_names == Unwrap(args.environment)
           env_name == env_names[cursor]
       IN IF env_name \in DOMAIN lock
          THEN /\ environments' = Append(environments, env_name)
               /\ IF cursor = Len(env_names)
                  THEN pc' = "platforms" /\ cursor' = 1
                  ELSE pc' = pc /\ cursor' = cursor + 1
               /\ UNCHANGED result
          ELSE /\ result' = Some(Err([kind |-> "unknown_environment",
                                       name |-> env_name]))
               /\ pc' = "done"
               /\ UNCHANGED <<environments, cursor>>
    /\ UNCHANGED <<lock, args, env_platform, fs, warnings, rendered, last, names, rev>>

\* Lines 166-170: every environment of the lock file, in the order its
\* map iterates them.
SelectAllEnvironments ==
    /\ pc = "environments"
    /\ ~IsSome(args.environment)
    /\ environments' \in Orders(DOMAIN lock)
    /\ pc' = "platforms"
    /\ cursor' = 1
    /\ UNCHANGED <<lock, args, env_platform, fs, warnings, rendered, result,
                   last, names, rev>>

\* Mutant of FilterPlatforms: the first platform the environment lacks ends
\* the loop, so the platforms after it are lost.
RECURSIVE FilterPlatforms_StopAtMissing(_, _, _, _, _)
FilterPlatforms_StopAtMissing(env_name, available_platforms, platforms, items, warned) ==
    IF platforms = <<>> THEN [items |-> items, warned |-> warned]
    ELSE LET plat == Head(platforms)
         IN IF plat \in available_platforms
            THEN FilterPlatforms_StopAtMissing(env_name, available_platforms,
                     Tail(platforms), Append(items, <<env_name, plat>>), warned)
            ELSE [items |-> items,
                  warned |-> Append(warned, [kind |-> "platform_not_available",
                                             platform |-> plat,
                                             env_name |-> env_name])]

\* Lines 178-188: the requested platforms against the available ones.
RECURSIVE FilterPlatforms(_, _, _, _, _)
FilterPlatforms(env_name, available_platforms, platforms, items, warned) ==
    IF platforms = <<>> THEN [items |-> items, warned |-> warned]
    ELSE LET plat == Head(platforms)
         IN IF plat \in available_platforms
            THEN FilterPlatforms(env_name, available_platforms, Tail(platforms),
                                 Append(items, <<env_name, plat>>), warned)
            ELSE FilterPlatforms(env_name, available_platforms, Tail(platforms),
                     items,
                     Append(warned, [kind |-> "platform_not_available",
                                     platform |-> plat, env_name |-> env_name]))

\* Lines 174-194: one turn of the loop over the selected environments.
ExpandPlatforms ==
    /\ pc = "platforms"
    /\ cursor <= Len(environments)
    /\ LET env_name == environments[cursor]
           available_platforms == DOMAIN lock[env_name]
       IN IF IsSome(args.platform)
          THEN LET f == FilterPlatforms(env_name, available_platforms,
                                        Unwrap(args.platform), <<>>, <<>>)
               IN /\ env_platform' = env_platform \o f.items
                  /\ warnings' = warnings \o f.warned
          ELSE /\ \E order \in Orders(available_platforms) :
                     env_platform' = env_platform
                         \o [i \in DOMAIN order |-> <<env_name, order[i]>>]
               /\ UNCHANGED warnings
    /\ cursor' = cursor + 1
    /\ UNCHANGED <<lock, args, pc, environments, fs, rendered, result, last, names, rev>>

\* Line 196: fs::create_dir_all(&args.output_dir).ok()
CreateOutputDir ==
    /\ pc = "platforms"
    /\ cursor > Len(environments)
    /\ fs' = [fs EXCEPT !.dir = TRUE]
    /\ pc' = "render"
    /\ cursor' = 1
    /\ UNCHANGED <<lock, args, environments, env_platform, warnings, rendered,
                   result, last, names, rev>>

\* Mutant of RenderWorkItem: a work-item that fails is passed over and the
\* loop goes on.
RenderWorkItem_ContinueOnError ==
    /\ pc = "render"
    /\ cursor <= Len(env_platform)
    /\ LET env_name == env_platform[cursor][1]
           plat == env_platform[cursor][2]
           r == render_env_platform(lock, fs.files, env_name, plat,
                                    args.ignore_pypi_errors)
       IN /\ last' = CallRecord(env_name, plat, args.ignore_pypi_errors,
                                fs.files, r)
          /\ rendered' = Append(rendered, <<env_name, plat>>)
          /\ warnings' = warnings \o r.warned
          /\ fs' = [fs EXCEPT !.files = r.files]
    /\ cursor' = cursor + 1
    /\ UNCHANGED <<lock, args, pc, environments, env_platform, result, names, rev>>

\* Lines 198-206: one turn of the loop over the work-items; an error ends
\* the run.
RenderWorkItem ==
    /\ pc = "render"
    /\ cursor <= Len(env_platform)
    /\ LET env_name == env_platform[cursor][1]
           plat == env_platform[cursor][2]
           r == render_env_platform(lock, fs.files, env_name, plat,
                                    args.ignore_pypi_errors)
       IN /\ last' = CallRecord(env_name, plat, args.ignore_pypi_errors,
                                fs.files, r)
          /\ rendered' = Append(rendered, <<env_name, plat>>)
          /\ warnings' = warnings \o r.warned
          /\ fs' = [fs EXCEPT !.files = r.files]
          /\ IF r.result.ok
             THEN pc' = pc /\ cursor' = cursor + 1 /\ UNCHANGED result
             ELSE pc' = "done" /\ result' = Some(r.result) /\ UNCHANGED cursor
    /\ UNCHANGED <<lock, args, environments, env_platform, names, rev>>

\* Mutant of Finish: a platform that was skipped turns the run into an error.
Finish_ErrIfSkipped ==
    /\ pc = "render"
    /\ cursor > Len(env_platform)
    /\ result' = IF \E i \in DOMAIN warnings :
                        warnings[i].kind = "platform_not_available"
                 THEN Some(Err([kind |-> "platform_not_available"]))
                 ELSE Some(Ok("unit"))
    /\ pc' = "done"
    /\ UNCHANGED <<lock, args, cursor, environments, env_platform, fs, warnings,
                   rendered, last, names, rev>>

\* Line 208: Ok(())
Finish ==
    /\ pc = "render"
    /\ cursor > Len(env_platform)
    /\ result' = Some(Ok("unit"))
    /\ pc' = "done"
    /\ UNCHANGED <<lock, args, cursor, environments, env_platform, fs, warnings,
                   rendered, last, names, rev>>

Next ==
    \/ SelectEnvironment
    \/ SelectAllEnvironments
    \/ ExpandPlatforms
    \/ CreateOutputDir
    \/ RenderWorkItem
    \/ Finish

Spec == Init /\ [][Next]_vars

----------------------------------------------------------------------------
(* SpecName: PyPiPackageName (pypi_requirement_types.rs, lines 8-59)       *)

\* The characters of the source strings; a string is a sequence of them.
NameChars == {"A", "a", "b", "-", "_"}
SourceStrings == SeqsOf(NameChars, 1, MaxNameLen)

IsPunctuation(c) == c \in {"-", "_", "."}
ToAsciiLowercase(c) == IF c = "A" THEN "a" ELSE c

\* uv_normalize::PackageName::from_str, called at line 39: letters are
\* lowercased, a run of '-', '_' and '.' becomes one '-', and a name that
\* starts or ends with one of them is invalid.
RECURSIVE ValidateAndNormalize(_, _, _)
ValidateAndNormalize(name, lastc, normalized) ==
    IF name = <<>>
    THEN IF IsSome(lastc) /\ IsPunctuation(Unwrap(lastc))
         THEN Err("InvalidNameError")
         ELSE Ok(normalized)
    ELSE LET c == Head(name)
         IN IF IsPunctuation(c)
            THEN IF ~IsSome(lastc)
                 THEN Err("InvalidNameError")
                 ELSE ValidateAndNormalize(Tail(name), Some(c),
                          IF IsPunctuation(Unwrap(lastc)) THEN normalized
                          ELSE Append(normalized, "-"))
            ELSE ValidateAndNormalize(Tail(name), Some(c),
                     Append(normalized, ToAsciiLowercase(c)))

\* impl FromStr for PyPiPackageName
from_str(name) ==
    LET n == ValidateAndNormalize(name, None, <<>>)
    IN IF n.ok THEN Ok([source |-> name, normalized |-> n.value]) ELSE n

as_source(x) == x.source
as_normalized(x) == x.normalized
\* impl Borrow<PackageName> for PyPiPackageName
borrow(x) == x.normalized

\* #[derive(PartialEq, Eq)]: the fields are compared one by one.
PartialEq(x, y) == x.source = y.source /\ x.normalized = y.normalized

\* #[derive(Hash)]: what is fed to the hasher, field after field.  Two
\* values hash alike when they feed the hasher the same.
HashInput(x) == <<x.source, x.normalized>>

InitName ==
    /\ lock = [e \in {"default"} |-> [p \in {} |-> <<>>]]
    /\ args = [environment |-> None, platform |-> None,
               ignore_pypi_errors |-> FALSE]
    /\ pc = "parse"
    /\ cursor = 0
    /\ environments = <<>>
    /\ env_platform = <<>>
    /\ fs = [dir |-> FALSE, files |-> NoFiles]
    /\ warnings = <<>>
    /\ rendered = <<>>
    /\ result = None
    /\ last = None
    /\ names = <<>>
    /\ rev = None

\* One more source string is parsed.
ParseName ==
    /\ pc = "parse"
    /\ Len(names) < 2
    /\ \E name \in SourceStrings :
          names' = Append(names, [input |-> name, parsed |-> from_str(name)])
    /\ UNCHANGED <<lock, args, pc, cursor, environments, env_platform, fs,
                   warnings, rendered, result, last, rev>>

NextName == ParseName

SpecName == InitName /\ [][NextName]_vars

----------------------------------------------------------------------------
(* SpecRev: GitRev (pypi_requirement_types.rs, lines 127-181)              *)

\* Longest revision string, in characters.
MaxRevLen == 41

\* The length the two constructors compare s.len() with.
FromFullLen == 40
DeserializeFullLen == 40

\* Characters of a revision string: hexadecimal digits, other ASCII
\* characters, and one character that takes two bytes in UTF-8.
RevChars == {"a", "F", "0", "g", "-", "U+00E9"}
IsHexDigit(c) == c \in {"a", "F", "0"}
Utf8Len(c) == IF c = "U+00E9" THEN 2 ELSE 1

\* Revision strings: a run of one character followed by a run of another.
RevStrings ==
    {[i \in 1..n |-> IF i <= k THEN a ELSE b] :
        n \in 0..MaxRevLen, k \in 0..MaxRevLen, a \in RevChars, b \in RevChars}

\* str::len: the length in bytes.
RECURSIVE StrLen(_)
StrLen(s) == IF s = <<>> THEN 0 ELSE Utf8Len(Head(s)) + StrLen(Tail(s))

Short(s) == [variant |-> "Short", rev |-> s]
Full(s) == [variant |-> "Full", rev |-> s]

\* Mutant of GitRevFrom: any string of 40 bytes or more is taken for a
\* full commit.
GitRevFrom_AtLeast(s) == IF StrLen(s) >= FromFullLen THEN Full(s) ELSE Short(s)

\* impl From<&str> for GitRev
GitRevFrom(s) == IF StrLen(s) = FromFullLen THEN Full(s) ELSE Short(s)

\* impl Deserialize for GitRev
GitRevDeserialize(s) ==
    IF StrLen(s) = DeserializeFullLen THEN Ok(Full(s)) ELSE Ok(Short(s))

\* GitRev::to_git_reference
to_git_reference(r) ==
    IF r.variant = "Full" THEN [variant |-> "FullCommit", rev |-> r.rev]
    ELSE [variant |-> "BranchOrTagOrCommit", rev |-> r.rev]

InitRev ==
    /\ lock = [e \in {"default"} |-> [p \in {} |-> <<>>]]
    /\ args = [environment |-> None, platform |-> None,
               ignore_pypi_errors |-> FALSE]
    /\ pc = "rev"
    /\ cursor = 0
    /\ environments = <<>>
    /\ env_platform = <<>>
    /\ fs = [dir |-> FALSE, files |-> NoFiles]
    /\ warnings = <<>>
    /\ rendered = <<>>
    /\ result = None
    /\ last = None
    /\ names = <<>>
    /\ \E s \in RevStrings :
          rev = Some([input |-> s, from |-> None, deserialized |-> None,
                      reference |-> None])

\* GitRev::from(s)
RevFrom ==
    /\ pc = "rev"
    /\ ~IsSome(Unwrap(rev).from)
    /\ rev' = Some([Unwrap(rev) EXCEPT !.from = Some(GitRevFrom(Unwrap(rev).input))])
    /\ UNCHANGED <<lock, args, pc, cursor, environments, env_platform, fs,
                   warnings, rendered, result, last, names>>

\* GitRev::deserialize of the string
RevDeserialize ==
    /\ pc = "rev"
    /\ ~IsSome(Unwrap(rev).deserialized)
    /\ rev' = Some([Unwrap(rev) EXCEPT
                      !.deserialized = Some(GitRevDeserialize(Unwrap(rev).input))])
    /\ UNCHANGED <<lock, args, pc, cursor, environments, env_platform, fs,
                   warnings, rendered, result, last, names>>

\* to_git_reference of the value From made
RevToGitReference ==
    /\ pc = "rev"
    /\ IsSome(Unwrap(rev).from)
    /\ ~IsSome(Unwrap(rev).reference)
    /\ rev' = Some([Unwrap(rev) EXCEPT
                      !.reference = Some(to_git_reference(Unwrap(Unwrap(rev).from)))])
    /\ UNCHANGED <<lock, args, pc, cursor, environments, env_platform, fs,
                   warnings, rendered, result, last, names>>

NextRev == RevFrom \/ RevDeserialize \/ RevToGitReference

SpecRev == InitRev /\ [][NextRev]_vars

----------------------------------------------------------------------------
(* What the claims speak of, read off the latest render_env_platform call  *)

Called == IsSome(last)
Call == Unwrap(last)
\* The package list of the pair the call was made on.
CallPackages == lock[Call.env_name][Call.platform]
CallConda == SelectSeq(CallPackages, LAMBDA p : p.kind = "conda")
CallPypi == SelectSeq(CallPackages, LAMBDA p : p.kind = "pypi")
CallTarget == SpecFileName(Call.env_name, Call.platform)
\* The entries of the spec file the call wrote.
CallEntries == Call.files[CallTarget].spec.packages

\* Positions of the entry of conda package p in a list of entries.
EntriesOf(entries, p) == {i \in DOMAIN entries : entries[i].url.path = p.url.path}

\* D is a dependency of P, both conda packages of the list ps.
DependsIn(ps, P, D) == P.name # D.name /\ D.name \in P.depends

\* The names a package reaches along the dependency edges inside ps.
RECURSIVE Reach(_, _, _)
Reach(ps, frontier, seen) ==
    LET nxt == (UNION {ps[i].depends : i \in {j \in DOMAIN ps : ps[j].name \in frontier}}
                    \cap RecordNames(ps)) \ seen
    IN IF nxt = {} THEN seen ELSE Reach(ps, nxt, seen \cup nxt)

HasCycle(ps) == \E i \in DOMAIN ps : ps[i].name \in Reach(ps, {ps[i].name}, {})

\* C1 (as claimed): every spec file render_env_platform writes holds one
\* entry per conda package of the pair, and the entry of a dependency D
\* stands strictly before the entry of every package P that depends on it.
C1_DependencyPrecedence ==
    (Called /\ Call.wrote) =>
        /\ Len(CallEntries) = Len(CallConda)
        /\ \A i \in DOMAIN CallConda :
              Cardinality(EntriesOf(CallEntries, CallConda[i])) = 1
        /\ \A i, j \in DOMAIN CallConda :
              DependsIn(CallConda, CallConda[i], CallConda[j]) =>
                 \A a \in EntriesOf(CallEntries, CallConda[i]),
                    b \in EntriesOf(CallEntries, CallConda[j]) : b < a

\* Supporting fact for C1: on a pair whose conda packages have no
\* dependency cycle the written order does respect every dependency.
AcyclicDependencyPrecedence ==
    (Called /\ Call.wrote /\ ~HasCycle(CallConda)) => C1_DependencyPrecedence

\* C2: a conda package without md5 makes the call fail, whatever
\* ignore_pypi_errors is, and the call writes nothing; no spec file on disk
\* holds an entry without a checksum fragment.
C2_MissingMd5Fatal ==
    /\ (Called /\ \E i \in DOMAIN CallConda : ~IsSome(CallConda[i].md5)) =>
          /\ ~Call.result.ok
          /\ ~Call.wrote
          /\ Call.files = Call.before
    /\ \A f \in DOMAIN fs.files :
          \A i \in DOMAIN fs.files[f].spec.packages :
             /\ IsSome(fs.files[f].spec.packages[i].url.fragment)
             /\ Unwrap(fs.files[f].spec.packages[i].url.fragment) # ""

C2_Witness ==
    /\ Called
    /\ Call.ignore_pypi_errors
    /\ Len(CallConda) = 2
    /\ IsSome(CallConda[1].md5) /\ ~IsSome(CallConda[2].md5)
    /\ ~Call.result.ok
    /\ Call.result.error.kind = "no_md5"

\* C3: with ignore_pypi_errors false a PyPI package anywhere in the list
\* makes the call fail and write nothing.
C3_PypiFatalWithoutFlag ==
    (Called /\ ~Call.ignore_pypi_errors /\ CallPypi # <<>>) =>
        /\ ~Call.result.ok
        /\ Call.result.error.kind = "pypi_not_supported"
        /\ ~Call.wrote
        /\ Call.files = Call.before

C3_Witness ==
    /\ Called
    /\ ~Call.ignore_pypi_errors
    /\ Len(CallPackages) = 3
    /\ CallPackages[1].kind = "conda" /\ IsSome(CallPackages[1].md5)
    /\ CallPackages[2].kind = "conda" /\ IsSome(CallPackages[2].md5)
    /\ CallPackages[3].kind = "pypi"
    /\ ~Call.result.ok

C8_CycleFatal ==
    (Called /\ HasCycle(CallConda)) => (~Call.result.ok /\ ~Call.wrote)

\* C9: when no entry is left (no conda package, PyPI packages at most
\* dropped under the flag) the call succeeds and leaves the files as they
\* were; in a fresh directory the pair's file does not exist afterwards.
C9_EmptySpecWritesNothing ==
    (/\ Called
     /\ CallConda = <<>>
     /\ (CallPypi = <<>> \/ Call.ignore_pypi_errors)) =>
        /\ Call.result.ok
        /\ ~Call.wrote
        /\ Call.files = Call.before
        /\ fs.files = Call.files
        /\ (Call.before = NoFiles => CallTarget \notin DOMAIN fs.files)

C9_Witness ==
    /\ Called
    /\ Call.ignore_pypi_errors
    /\ CallConda = <<>>
    /\ Len(CallPypi) = 2
    /\ Call.result.ok
    /\ fs.files = NoFiles

----------------------------------------------------------------------------
(* What the claims speak of, read off the arguments and the lock file      *)

Range(v) == {v[i] : i \in DOMAIN v}

\* The environments the arguments select.
Selected ==
    IF IsSome(args.environment) THEN Range(Unwrap(args.environment))
    ELSE DOMAIN lock
AllKnown == Selected \subseteq DOMAIN lock
UnknownRequested == ~AllKnown

RequestedPlatforms ==
    IF IsSome(args.platform) THEN Range(Unwrap(args.platform)) ELSE {}

\* The platforms of environment E the arguments ask for.
PlatformsFor(E) ==
    IF IsSome(args.platform) THEN RequestedPlatforms \cap DOMAIN lock[E]
    ELSE DOMAIN lock[E]

ExpectedWorkItems == UNION {{<<E, P>> : P \in PlatformsFor(E)} : E \in Selected}
ExpectedSkips ==
    UNION {{<<E, P>> : P \in RequestedPlatforms \ DOMAIN lock[E]} : E \in Selected}

SkipWarnings ==
    {<<warnings[i].env_name, warnings[i].platform>> :
        i \in {j \in DOMAIN warnings : warnings[j].kind = "platform_not_available"}}

\* The selector has run to its end: the work-item list is complete.
SelectionDone == pc = "render" \/ (pc = "done" /\ fs.dir)

Returned == pc = "done" /\ IsSome(result)
ReturnedOk == Returned /\ Unwrap(result).ok
ReturnedErr == Returned /\ ~Unwrap(result).ok

\* C5: the selector builds exactly the work-items (E, P), E a selected
\* environment and P a requested platform E has (every platform of E when
\* none is requested); a requested platform E lacks gives a warning for
\* (E, P), no work-item for E and no error, and leaves the work-items of
\* the other environments in place.
C5_SelectorWorkItems ==
    SelectionDone =>
        /\ AllKnown
        /\ Range(env_platform) = ExpectedWorkItems
        /\ SkipWarnings = ExpectedSkips
        /\ (pc = "render" /\ cursor = 1) => result = None
        /\ ReturnedErr =>
              Unwrap(result).error.kind \in {"no_md5", "pypi_not_supported"}

C5_Witness ==
    /\ pc = "render"
    /\ <<"cuda", "osx-arm64">> \in SkipWarnings
    /\ <<"default", "osx-arm64">> \in Range(env_platform)
    /\ <<"cuda", "linux-64">> \in Range(env_platform)
    /\ <<"cuda", "osx-arm64">> \notin Range(env_platform)

\* C6: a requested environment name the lock file does not hold, at any
\* position of the list, makes execute fail before any export: nothing is
\* rendered, the output directory is not created, no file is written.
C6_UnknownEnvironmentFatal ==
    UnknownRequested =>
        /\ pc \in {"environments", "done"}
        /\ env_platform = <<>>
        /\ rendered = <<>>
        /\ last = None
        /\ ~fs.dir
        /\ fs.files = NoFiles
        /\ pc = "done" =>
              /\ ReturnedErr
              /\ Unwrap(result).error.kind = "unknown_environment"
              /\ Unwrap(result).error.name \notin DOMAIN lock

C6_Witness ==
    /\ args.environment = Some(<<"default", "ci">>)
    /\ environments = <<"default">>
    /\ ReturnedErr

\* A requested platform that none of the selected environments has.
Nowhere(P) ==
    /\ AllKnown
    /\ P \in RequestedPlatforms
    /\ \A E \in Selected : P \notin DOMAIN lock[E]

----------------------------------------------------------------------------
(* PyPiPackageName                                                         *)

\* Two source strings were parsed, both to a name.
BothParsed == Len(names) = 2 /\ names[1].parsed.ok /\ names[2].parsed.ok
NameA == names[1].parsed.value
NameB == names[2].parsed.value

\* C10 (as claimed): two source strings with the same normalized name parse
\* to values that compare equal and hash equal, as their Borrow<PackageName>
\* views do, and as_source of each returns its own text.
C10_EqualityByNormalized ==
    (BothParsed /\ as_normalized(NameA) = as_normalized(NameB)) =>
        /\ PartialEq(NameA, NameB)
        /\ HashInput(NameA) = HashInput(NameB)
        /\ PartialEq(NameA, NameB) <=> (borrow(NameA) = borrow(NameB))
        /\ as_source(NameA) = names[1].input
        /\ as_source(NameB) = names[2].input

\* Supporting fact for C10: the derived equality holds exactly when the
\* source texts are the same, and as_source returns the text parsed.
DerivedEqualityComparesSource ==
    BothParsed =>
        /\ PartialEq(NameA, NameB) <=> (names[1].input = names[2].input)
        /\ as_source(NameA) = names[1].input
        /\ as_source(NameB) = names[2].input

----------------------------------------------------------------------------
(* GitRev                                                                  *)

Rev == Unwrap(rev)
RevClassified == IsSome(rev) /\ IsSome(Rev.from) /\ IsSome(Rev.deserialized)
RevFromValue == Unwrap(Rev.from)
RevDeserializedValue == Unwrap(Rev.deserialized).value
IsHex40(s) == Len(s) = 40 /\ \A i \in DOMAIN s : IsHexDigit(s[i])

\* Both constructors agree, keep the string, and to_git_reference pins a
\* commit for a Full revision only.
RevPathsAgree ==
    /\ RevClassified =>
          /\ Unwrap(Rev.deserialized).ok
          /\ RevDeserializedValue = RevFromValue
          /\ RevFromValue.rev = Rev.input
    /\ (IsSome(rev) /\ IsSome(Rev.reference)) =>
          /\ (Unwrap(Rev.reference).variant = "FullCommit")
                <=> (RevFromValue.variant = "Full")
          /\ Unwrap(Rev.reference).rev = Rev.input

\* C11 (as claimed): a revision is Full exactly when it is a 40-character
\* hexadecimal string, Short otherwise, by From and by Deserialize alike,
\* and to_git_reference gives FullCommit for Full revisions only.
C11_FullIffHex40 ==
    /\ RevClassified => ((RevFromValue.variant = "Full") <=> IsHex40(Rev.input))
    /\ RevPathsAgree

\* C11 (amended): a revision is Full exactly when its length is 40 bytes,
\* whatever its characters, Short otherwise, by From and by Deserialize
\* alike, and to_git_reference gives FullCommit for Full revisions only.
C11_FullIffLen40 ==
    /\ RevClassified => ((RevFromValue.variant = "Full") <=> (StrLen(Rev.input) = 40))
    /\ RevPathsAgree

\* A branch name of 40 characters, none a hexadecimal digit, is Full.
C11_Witness ==
    /\ RevClassified
    /\ Len(Rev.input) = 40
    /\ \A i \in DOMAIN Rev.input : Rev.input[i] = "g"
    /\ RevFromValue.variant = "Full"
    /\ RevDeserializedValue.variant = "Full"
    /\ IsSome(Rev.reference)
    /\ Unwrap(Rev.reference).variant = "FullCommit"

----------------------------------------------------------------------------
(* The order of the work-items                                             *)

\* What render_env_platform does on work-item w in an empty directory.
ItemOutcome(w) ==
    render_env_platform(lock, NoFiles, w[1], w[2], args.ignore_pypi_errors)
ItemFails(w) == ~ItemOutcome(w).result.ok
ItemWrites(w) == ItemOutcome(w).wrote

\* The spec files of all the work-items that write one.
AllSpecFiles ==
    LET writers == {w \in ExpectedWorkItems : ItemWrites(w)}
    IN [f \in {SpecFileName(w[1], w[2]) : w \in writers} |->
           LET w == CHOOSE x \in writers : SpecFileName(x[1], x[2]) = f
           IN ItemOutcome(w).files[f]]

\* The run that takes the environments in the order given (the order
\* default, cuda when none is given) and the platforms of each in the
\* order given (linux-64, osx-arm64 when none is given).
ReferenceEnvironments ==
    IF IsSome(args.environment) THEN Unwrap(args.environment)
    ELSE SelectSeq(<<"default", "cuda">>, LAMBDA e : e \in DOMAIN lock)

ReferencePlatforms(E) ==
    SelectSeq(IF IsSome(args.platform) THEN Unwrap(args.platform)
              ELSE <<"linux-64", "osx-arm64">>,
              LAMBDA p : p \in DOMAIN lock[E])

RECURSIVE ReferenceWorkItems(_)
ReferenceWorkItems(envs) ==
    IF envs = <<>> THEN <<>>
    ELSE LET ps == ReferencePlatforms(Head(envs))
         IN [i \in DOMAIN ps |-> <<Head(envs), ps[i]>>]
            \o ReferenceWorkItems(Tail(envs))

RECURSIVE RunWorkItems(_, _)
RunWorkItems(items, files) ==
    IF items = <<>> THEN [result |-> Ok("unit"), files |-> files]
    ELSE LET r == render_env_platform(lock, files, Head(items)[1],
                                      Head(items)[2], args.ignore_pypi_errors)
         IN IF r.result.ok THEN RunWorkItems(Tail(items), r.files)
            ELSE [result |-> r.result, files |-> r.files]

ReferenceRun == RunWorkItems(ReferenceWorkItems(ReferenceEnvironments), NoFiles)

\* C12 (as claimed): whatever the order in which the work-items are
\* processed, the run ends with the result and the spec files of the run
\* that takes them in the reference order, also when a work-item fails.
C12_OrderNotObservable ==
    (pc = "done" /\ AllKnown) =>
        /\ result = Some(ReferenceRun.result)
        /\ fs.files = ReferenceRun.files

\* C12 (amended): in every processing order the run succeeds exactly when
\* no work-item fails, and then leaves the same spec files with the same
\* contents; when a work-item fails the run ends with the error of a
\* failing work-item in every order, and the files it leaves are among
\* those spec files, which of them depending on the order.
C12_OrderObservableOnlyOnFailure ==
    (pc = "done" /\ AllKnown) =>
        /\ ReturnedOk <=> (\A w \in ExpectedWorkItems : ~ItemFails(w))
        /\ ReturnedOk => fs.files = AllSpecFiles
        /\ ReturnedErr =>
              /\ \E w \in ExpectedWorkItems :
                    ItemFails(w) /\ Unwrap(result) = ItemOutcome(w).result
              /\ \A f \in DOMAIN fs.files :
                    f \in DOMAIN AllSpecFiles /\ fs.files[f] = AllSpecFiles[f]

\* A run that failed after it wrote a file, and that differs from the
\* reference run.
C12_Witness ==
    /\ pc = "done"
    /\ AllKnown
    /\ ~IsSome(args.platform)
    /\ ReturnedErr
    /\ fs.files # NoFiles
    /\ fs.files # ReferenceRun.files

\* C13 (as claimed): no two entries of the work-item list are the same
\* (environment, platform) pair, also when the filter lists repeat a name
\* or a platform, so that render_env_platform is called once per pair at
\* most and no spec file is written twice.
C13_DistinctWorkItems ==
    /\ \A i, j \in DOMAIN env_platform :
          env_platform[i] = env_platform[j] => i = j
    /\ \A i, j \in DOMAIN rendered : rendered[i] = rendered[j] => i = j

\* Supporting fact for C13: when no name and no platform is repeated in
\* the filter lists the work-items are distinct.
DistinctWithoutRepeats ==
    (/\ IsSome(args.environment) =>
           Cardinality(Selected) = Len(Unwrap(args.environment))
     /\ IsSome(args.platform) =>
           Cardinality(RequestedPlatforms) = Len(Unwrap(args.platform)))
    => C13_DistinctWorkItems

=============================================================================
